---- MODULE Spec2Model ----
(***************************************************************************)
(* MCDM criteria selection (src/app.py): the derived inputs computed at    *)
(* the end of read_mcdm_template, the constraint and objective system      *)
(* assembled by build_mcdm_model, the weight normalisation of              *)
(* show_step3_set_weights and the handler show_step4_run_optimization.     *)
(*                                                                         *)
(* Numbers.  Metrics, thresholds and correlations are fixed-point numbers: *)
(* one unit is half of eps (eps = 1e-6), so 1.0 is Scale = 1000000 * eps   *)
(* units and every comparison of the code is exact.  M_big = 10000.0 is    *)
(* kept in whole 1.0s; a big-M inequality is compared by quotient and      *)
(* remainder against Scale, which is the same inequality without leaving   *)
(* the range of 32-bit integers.  Weights and objective coefficients are   *)
(* exact fractions <<numerator, denominator>>.                             *)
(***************************************************************************)
EXTENDS Integers, Sequences, FiniteSets, TLC

VARIABLES current_step, data, weights, model, result, sliders, built, asg, run,
          file, rng, rebuilt, extract

vars == <<current_step, data, weights, model, result, sliders, built, asg, run,
          file, rng, rebuilt, extract>>

(***************************************************************************)
(* Bounds of the model.                                                    *)
(***************************************************************************)
MaxCrit == 2       \* criteria in a drawn input: 1..MaxCrit
MaxObj == 2        \* objectives in a drawn input: 1..MaxObj
MaxGap == 3        \* a probed metric lies within MaxGap units (half eps) of its threshold
MaxSlack == 1      \* total excess of the deviation pairs over their minimal values
MaxRuns == 1       \* clicks of the Run Optimization button in a session
MaxAlt == 3        \* alternatives of an uploaded workbook: 2..MaxAlt
MaxExp == 3        \* experts of an uploaded workbook: 2..MaxExp
MaxPars == 2       \* omega and zeta entered in step 1: 1..MaxPars
MaxExtracts == 2   \* clicks of the Extract Data button in a session
MaxReadCrit == 4   \* criteria of the largest uploaded workbook
MaxWizardRuns == 2 \* clicks of the Run Optimization button in a wizard session

(***************************************************************************)
(* Program constants.                                                      *)
(***************************************************************************)
eps == 2                      \* results['eps'] = 1e-6, in units of half eps
M_big == 10000                \* results['M_big'] = 10000.0, in whole 1.0s
L_const == 1                  \* L = {o: 1 for o in O}
U_const == 2                  \* U = {o: 2 for o in O}
Scale == 1000000 * eps        \* units in 1.0

\* Python's None (session state before a value is stored)
None == [kind |-> "None"]

\* The state of numpy's global generator: the seed it was last given and the
\* number of variates drawn since.
Rng(seed, drawn) == [seed |-> seed, drawn |-> drawn]
Unseeded == Rng(0, 0)

\* Thresholds: the defaults of the number inputs of step 1, written to the
\* workbook and read back by read_mcdm_template.
Thresholds ==
    [alpha   |-> 6 * Scale,
     gamma_O |-> (13 * Scale) \div 2,
     gamma_S |-> (11 * Scale) \div 2,
     delta   |-> (3 * Scale) \div 4,
     theta   |-> (35 * Scale) \div 1000,
     tau_O   |-> 7 * Scale,
     tau_S   |-> 6 * Scale,
     lambda  |-> (13 * Scale) \div 2,
     mu      |-> 7 * Scale]

(***************************************************************************)
(* Arithmetic helpers.                                                     *)
(***************************************************************************)
RECURSIVE SumF(_, _)
\* Python's sum(f[e] for e in S)
SumF(f, S) ==
    IF S = {} THEN 0
    ELSE LET e == CHOOSE e \in S : TRUE IN f[e] + SumF(f, S \ {e})

Max2(a, b) == IF a >= b THEN a ELSE b

\* lhs <= k * 1.0 + off, with lhs and off in units and k in whole 1.0s
BigLeq(lhs, k, off) ==
    LET dd == lhs - off
    IN  \/ dd \div Scale < k
        \/ (dd \div Scale = k /\ dd % Scale = 0)

\* lhs >= k * 1.0 + off
BigGeq(lhs, k, off) == (lhs - off) \div Scale >= k

(***************************************************************************)
(* read_mcdm_template, from the consolidated matrices to the returned      *)
(* dictionary.  raw holds what the sheets gave: the counts, the value      *)
(* lists (1-based here), r_mat, g_matrix, the thresholds, omega and zeta.  *)
(***************************************************************************)
DerivedData(raw) ==
    LET I == 1 .. raw.num_criteria
        O == 1 .. raw.num_objectives
        pairs == {p \in I \X I : p[1] < p[2]}
        e_rp == [i \in I |-> IF SumF(raw.g_matrix[i], O) >= 1 THEN 1 ELSE 0]
        Io == [o \in O |-> SumF([i \in I |-> raw.g_matrix[i][o]], I)]
        u == raw.u_values
        r == [p \in pairs |-> raw.r_mat[p[1]][p[2]]]
    IN  [I |-> I, O |-> O, pairs |-> pairs,
         c |-> raw.c_values, u |-> u, m |-> raw.m_values, s |-> raw.s_values,
         ce |-> raw.ce_values, a |-> raw.a_values, cc |-> raw.cc_values,
         q |-> raw.q_values,
         gamma |-> [i \in I |-> raw.gamma_O * u[i] + raw.gamma_S * (1 - u[i])],
         tau |-> [i \in I |-> raw.tau_O * u[i] + raw.tau_S * (1 - u[i])],
         r |-> r,
         g |-> [p \in I \X O |-> raw.g_matrix[p[1]][p[2]]],
         e_rp_dict |-> e_rp,
         Io_dict |-> Io,
         L |-> [o \in O |-> L_const],
         U |-> [o \in O |-> U_const],
         D |-> [o \in O |-> Max2(1, Io[o] - U_const)],
         alpha |-> raw.alpha, delta |-> raw.delta, theta |-> raw.theta,
         lambda |-> raw.lambda, mu |-> raw.mu,
         omega |-> raw.omega, zeta |-> raw.zeta,
         tot_c |-> SumF(raw.c_values, I), tot_m |-> SumF(raw.m_values, I),
         tot_s |-> SumF(raw.s_values, I), tot_ce |-> SumF(raw.ce_values, I),
         tot_a |-> SumF(raw.a_values, I), tot_cc |-> SumF(raw.cc_values, I),
         tot_r |-> SumF(r, pairs),
         M_big |-> M_big, eps |-> eps]

(***************************************************************************)
(* show_step3_set_weights: the twelve components with their defaults (in   *)
(* hundredths, the slider step) and the normalisation that is stored.      *)
(***************************************************************************)
WeightKeys ==
    {"w1", "w2", "w3", "w4", "w5_minus", "w6", "w7", "w8", "w9",
     "w5_plus", "w11_minus", "w11_plus"}

SliderDefault(k) ==
    IF k \in {"w5_minus", "w5_plus", "w11_minus", "w11_plus"} THEN 5 ELSE 10

\* total = sum(raw_weights.values()) or 1
TotalOr1(raw_weights) ==
    LET t == SumF(raw_weights, WeightKeys) IN IF t = 0 THEN 1 ELSE t

\* normalized = {k: v / total for k, v in raw_weights.items()}
Normalized(raw_weights) ==
    [k \in WeightKeys |-> <<raw_weights[k], TotalOr1(raw_weights)>>]

(***************************************************************************)
(* build_mcdm_model: the constraints.  d is the data dictionary, v an      *)
(* assignment of the variables (x, yc, ym, ys, yce, ya, ycc over I; h, t   *)
(* over the pairs; rho; N; d1_minus .. d2_plus; n, do1_minus .. do2_plus   *)
(* over O).  rho is a fraction <<numerator, denominator>>.                 *)
(***************************************************************************)
comp1(d, v, i) == BigLeq(d.c[i] - d.alpha, d.M_big * v.yc[i], -d.eps)
comp2(d, v, i) == BigGeq(d.c[i] - d.alpha, -d.M_big * (1 - v.yc[i]), -d.eps)
\* comp3 with the implication reversed
comp3_reversed(d, v, i) == v.yc[i] <= v.x[i]
comp3(d, v, i) == v.x[i] <= v.yc[i]

N_def(d, v) == v.N = SumF(v.x, d.I)

sum_u(d) == SumF(d.u, d.I)

\* rho_def with the number of criteria in place of sum_u
rho_def_over_all(d, v) ==
    v.rho[1] * Cardinality(d.I) = v.rho[2] * SumF([i \in d.I |-> d.u[i] * v.x[i]], d.I)

\* M.rho * sum_u == sum(u[i] * M.x[i] for i in M.I)
rho_def(d, v) ==
    v.rho[1] * sum_u(d) = v.rho[2] * SumF([i \in d.I |-> d.u[i] * v.x[i]], d.I)

meas1(d, v, i) == BigLeq(d.m[i] - d.gamma[i], d.M_big * v.ym[i], -d.eps)
meas2(d, v, i) == BigGeq(d.m[i] - d.gamma[i], -d.M_big * (1 - v.ym[i]), -d.eps)
meas3(d, v, i) == v.x[i] <= v.ym[i]

sens1(d, v, i) == BigLeq(d.s[i] - d.theta, d.M_big * v.ys[i], 0)
sens2(d, v, i) == BigGeq(d.s[i] - d.theta, -d.M_big * (1 - v.ys[i]), d.eps)
sens3(d, v, i) == v.x[i] <= v.ys[i]

cost1(d, v, i) == BigLeq(d.ce[i] - d.tau[i], d.M_big * v.yce[i], -d.eps)
cost2(d, v, i) == BigGeq(d.ce[i] - d.tau[i], -d.M_big * (1 - v.yce[i]), -d.eps)
cost3(d, v, i) == v.x[i] <= v.yce[i]

align1(d, v, i) == BigLeq(d.a[i] - d.lambda, d.M_big * v.ya[i], -d.eps)
align2(d, v, i) == BigGeq(d.a[i] - d.lambda, -d.M_big * (1 - v.ya[i]), -d.eps)
align3(d, v, i) == v.x[i] <= v.ya[i]

cog1(d, v, i) == BigLeq(d.cc[i] - d.mu, d.M_big * v.ycc[i], -d.eps)
cog2(d, v, i) == BigGeq(d.cc[i] - d.mu, -d.M_big * (1 - v.ycc[i]), -d.eps)
cog3(d, v, i) == v.x[i] <= v.ycc[i]

\* dist1 with the tolerance on the other side: r = delta leaves h free
dist1_loose(d, v, p) == BigLeq(d.r[p] - d.delta, d.M_big * v.h[p], d.eps)
dist1(d, v, p) == BigLeq(d.r[p] - d.delta, d.M_big * v.h[p], -d.eps)
dist2(d, v, p) == BigGeq(d.r[p] - d.delta, -d.M_big * (1 - v.h[p]), -d.eps)
\* dist3 that lets both members of a flagged pair in
dist3_off(d, v, p) == v.x[p[1]] + v.x[p[2]] <= 2
dist3(d, v, p) == v.x[p[1]] + v.x[p[2]] <= 2 - v.h[p]

\* par1 with the sign of the shortfall wrong
par1_sign(d, v) == v.N - v.d1_minus - v.d1_plus = d.omega
par1(d, v) == v.N + v.d1_minus - v.d1_plus = d.omega
par2(d, v) == v.N + v.d2_minus - v.d2_plus = d.zeta

mono(d, v, i) == v.x[i] <= d.q[i]

\* rep_count that ignores the coverage matrix
rep_count_all(d, v, o) == v.n[o] = SumF(v.x, d.I)
rep_count(d, v, o) == v.n[o] = SumF([i \in d.I |-> d.g[<<i, o>>] * v.x[i]], d.I)
coverage(d, v, o) == v.n[o] >= 1
rep_min(d, v, o) == v.n[o] + v.do1_minus[o] - v.do1_plus[o] = d.L[o]
rep_max(d, v, o) == v.n[o] + v.do2_minus[o] - v.do2_plus[o] = d.U[o]
rep_veto(d, v, i) == v.x[i] <= d.e_rp_dict[i]

t1(d, v, p) == v.t[p] <= v.x[p[1]]
t2(d, v, p) == v.t[p] <= v.x[p[2]]
\* t3 that asks nothing of t
t3_off(d, v, p) == v.t[p] >= 0
t3(d, v, p) == v.t[p] >= v.x[p[1]] + v.x[p[2]] - 1

\* The variable domains: Binary, bounds=(0, 1), NonNegativeIntegers.
Domains(d, v) ==
    /\ \A i \in d.I : /\ v.x[i] \in {0, 1}
                      /\ v.yc[i] \in {0, 1} /\ v.ym[i] \in {0, 1}
                      /\ v.ys[i] \in {0, 1} /\ v.yce[i] \in {0, 1}
                      /\ v.ya[i] \in {0, 1} /\ v.ycc[i] \in {0, 1}
    /\ \A p \in d.pairs : v.h[p] \in {0, 1} /\ v.t[p] \in {0, 1}
    /\ v.rho[2] > 0 /\ 0 <= v.rho[1] /\ v.rho[1] <= v.rho[2]
    /\ v.N >= 0
    /\ v.d1_minus >= 0 /\ v.d1_plus >= 0 /\ v.d2_minus >= 0 /\ v.d2_plus >= 0
    /\ \A o \in d.O : /\ v.n[o] >= 0
                      /\ v.do1_minus[o] >= 0 /\ v.do1_plus[o] >= 0
                      /\ v.do2_minus[o] >= 0 /\ v.do2_plus[o] >= 0

\* Every constraint of the model holds of the assignment v.
Feasible(d, v) ==
    /\ Domains(d, v)
    /\ \A i \in d.I :
          /\ comp1(d, v, i) /\ comp2(d, v, i) /\ comp3(d, v, i)
          /\ meas1(d, v, i) /\ meas2(d, v, i) /\ meas3(d, v, i)
          /\ sens1(d, v, i) /\ sens2(d, v, i) /\ sens3(d, v, i)
          /\ cost1(d, v, i) /\ cost2(d, v, i) /\ cost3(d, v, i)
          /\ align1(d, v, i) /\ align2(d, v, i) /\ align3(d, v, i)
          /\ cog1(d, v, i) /\ cog2(d, v, i) /\ cog3(d, v, i)
          /\ mono(d, v, i) /\ rep_veto(d, v, i)
    /\ N_def(d, v) /\ rho_def(d, v)
    /\ \A p \in d.pairs :
          /\ dist1(d, v, p) /\ dist2(d, v, p) /\ dist3(d, v, p)
          /\ t1(d, v, p) /\ t2(d, v, p) /\ t3(d, v, p)
    /\ par1(d, v) /\ par2(d, v)
    /\ \A o \in d.O :
          /\ rep_count(d, v, o) /\ coverage(d, v, o)
          /\ rep_min(d, v, o) /\ rep_max(d, v, o)

(***************************************************************************)
(* build_mcdm_model: the objective and the value returned.  A term         *)
(* [w, num, den] stands for w * (num / den); the objective is the benefit  *)
(* terms times x[i] plus the rho term, minus the redundancy, parsimony and *)
(* representativeness terms times t, d1_minus, d2_plus, do1_minus[o] and   *)
(* do2_plus[o].                                                            *)
(***************************************************************************)
Term(w, num, den) == [w |-> w, num |-> num, den |-> den]

\* O_card = len(O)
O_card(d) == Cardinality(d.O)

Objective(d, w) ==
    [benefit |-> [i \in d.I |->
                    <<Term(w["w1"], d.c[i], d.tot_c), Term(w["w3"], d.m[i], d.tot_m),
                      Term(w["w6"], d.s[i], d.tot_s), Term(w["w7"], d.ce[i], d.tot_ce),
                      Term(w["w8"], d.a[i], d.tot_a), Term(w["w9"], d.cc[i], d.tot_cc)>>],
     rho |-> Term(w["w2"], 1, 1),
     redundancy |-> [p \in d.pairs |-> Term(w["w4"], d.r[p], d.tot_r)],
     d1_minus |-> Term(w["w5_minus"], 1, d.omega),
     d2_plus |-> Term(w["w5_plus"], 1, Cardinality(d.I) - d.zeta),
     do1_minus |-> [o \in d.O |-> Term(w["w11_minus"], 1, d.L[o] * O_card(d))],
     do2_plus |-> [o \in d.O |-> Term(w["w11_plus"], 1, d.D[o] * O_card(d))]]

\* The exception the construction ends with, "" when it ends with none.
\* folds: the installed Pyomo reduces 0 * var to the number 0, so that the
\* expression of rho_def is the Boolean True when sum_u is 0.
\* BuildError of a build that divides by max(O_card, 1)
BuildError_guarded(d, w, folds) ==
    IF folds /\ sum_u(d) = 0 THEN "ValueError"
    ELSE IF \E p \in d.pairs : p[1] \notin d.I \/ p[2] \notin d.I THEN "KeyError"
    ELSE IF d.I # {} /\ 0 \in {d.tot_c, d.tot_m, d.tot_s, d.tot_ce, d.tot_a, d.tot_cc}
         THEN "ZeroDivisionError"
    ELSE IF d.tot_r = 0 THEN "ZeroDivisionError"
    ELSE IF d.omega = 0 \/ Cardinality(d.I) - d.zeta = 0 THEN "ZeroDivisionError"
    ELSE IF \E o \in d.O : d.L[o] = 0 \/ d.D[o] = 0 THEN "ZeroDivisionError"
    ELSE ""

BuildError(d, w, folds) ==
    IF folds /\ sum_u(d) = 0 THEN "ValueError"
    ELSE IF \E p \in d.pairs : p[1] \notin d.I \/ p[2] \notin d.I THEN "KeyError"
    ELSE IF d.I # {} /\ 0 \in {d.tot_c, d.tot_m, d.tot_s, d.tot_ce, d.tot_a, d.tot_cc}
         THEN "ZeroDivisionError"
    ELSE IF d.tot_r = 0 THEN "ZeroDivisionError"
    ELSE IF d.omega = 0 \/ Cardinality(d.I) - d.zeta = 0 THEN "ZeroDivisionError"
    ELSE IF \E o \in d.O : d.L[o] = 0 \/ d.D[o] = 0 THEN "ZeroDivisionError"
    ELSE IF O_card(d) = 0 THEN "ZeroDivisionError"
    ELSE ""

build_mcdm_model(d, w, folds) ==
    IF BuildError(d, w, folds) # ""
    THEN [status |-> "raised", error |-> BuildError(d, w, folds)]
    ELSE [status |-> "ok",
          M |-> [data |-> d, weights |-> w, sum_u |-> sum_u(d),
                 O_card |-> O_card(d), obj |-> Objective(d, w)]]

(***************************************************************************)
(* Inputs.  A base workbook in which every criterion clears every          *)
(* threshold by Pass, is objective, monotone and mapped to one objective,  *)
(* and families that vary one aspect of it each.                           *)
(***************************************************************************)
Pass == Scale \div 10

GateNames == {"c", "m", "s", "ce", "a", "cc"}

\* The threshold the gate compares a criterion of objectivity flag up with.
ThresholdOf(gate, up) ==
    CASE gate = "c"  -> Thresholds.alpha
      [] gate = "m"  -> IF up = 1 THEN Thresholds.gamma_O ELSE Thresholds.gamma_S
      [] gate = "s"  -> Thresholds.theta
      [] gate = "ce" -> IF up = 1 THEN Thresholds.tau_O ELSE Thresholds.tau_S
      [] gate = "a"  -> Thresholds.lambda
      [] gate = "cc" -> Thresholds.mu

BaseRaw(n, no) ==
    [num_criteria |-> n, num_objectives |-> no,
     c_values  |-> [i \in 1..n |-> ThresholdOf("c", 1) + Pass],
     u_values  |-> [i \in 1..n |-> 1],
     m_values  |-> [i \in 1..n |-> ThresholdOf("m", 1) + Pass],
     s_values  |-> [i \in 1..n |-> ThresholdOf("s", 1) + Pass],
     ce_values |-> [i \in 1..n |-> ThresholdOf("ce", 1) + Pass],
     a_values  |-> [i \in 1..n |-> ThresholdOf("a", 1) + Pass],
     cc_values |-> [i \in 1..n |-> ThresholdOf("cc", 1) + Pass],
     q_values  |-> [i \in 1..n |-> 1],
     g_matrix  |-> [i \in 1..n |-> [o \in 1..no |-> IF o = ((i - 1) % no) + 1 THEN 1 ELSE 0]],
     r_mat     |-> [i \in 1..n |-> [k \in 1..n |-> IF i = k THEN Scale ELSE Scale \div 4]],
     omega |-> 1, zeta |-> 1,
     alpha |-> Thresholds.alpha, gamma_O |-> Thresholds.gamma_O,
     gamma_S |-> Thresholds.gamma_S, delta |-> Thresholds.delta,
     theta |-> Thresholds.theta, tau_O |-> Thresholds.tau_O,
     tau_S |-> Thresholds.tau_S, lambda |-> Thresholds.lambda, mu |-> Thresholds.mu]

\* raw with the metric of one gate replaced by the list vals
WithMetric(raw, gate, vals) ==
    CASE gate = "c"  -> [raw EXCEPT !.c_values = vals]
      [] gate = "m"  -> [raw EXCEPT !.m_values = vals]
      [] gate = "s"  -> [raw EXCEPT !.s_values = vals]
      [] gate = "ce" -> [raw EXCEPT !.ce_values = vals]
      [] gate = "a"  -> [raw EXCEPT !.a_values = vals]
      [] gate = "cc" -> [raw EXCEPT !.cc_values = vals]

MetricOf(raw, gate) ==
    CASE gate = "c"  -> raw.c_values
      [] gate = "m"  -> raw.m_values
      [] gate = "s"  -> raw.s_values
      [] gate = "ce" -> raw.ce_values
      [] gate = "a"  -> raw.a_values
      [] gate = "cc" -> raw.cc_values

Sizes == (1 .. MaxCrit) \X (1 .. MaxObj)

\* One metric of one criterion p lies off units from its threshold; p is
\* objective (up = 1) or subjective (up = 0).
ProbeGate(raw, p, gate, off, up) ==
    LET bu == [raw EXCEPT !.u_values[p] = up]
    IN  WithMetric(bu, gate, [MetricOf(bu, gate) EXCEPT ![p] = ThresholdOf(gate, up) + off])

RawGate ==
    UNION {{ProbeGate(BaseRaw(z[1], z[2]), p, gate, off, up) :
               p \in 1 .. z[1], gate \in GateNames,
               off \in (-MaxGap) .. MaxGap, up \in {0, 1}} : z \in Sizes}

\* Monotonicity flags and the consolidated coverage rows vary; row[i] = 0
\* is a criterion mapped to no objective.
RawVeto ==
    UNION {{[BaseRaw(z[1], z[2]) EXCEPT
               !.q_values = qv,
               !.g_matrix = [i \in 1..z[1] |-> [o \in 1..z[2] |-> IF row[i] = o THEN 1 ELSE 0]]] :
               qv \in [1..z[1] -> {0, 1}], row \in [1..z[1] -> 0..z[2]]} : z \in Sizes}

PairsOf(n) == {pr \in (1 .. n) \X (1 .. n) : pr[1] < pr[2]}

\* raw with the pooled correlations rv (a function of the pairs i < k)
WithCorr(raw, rv) ==
    [raw EXCEPT !.r_mat = [i \in 1..raw.num_criteria |-> [k \in 1..raw.num_criteria |->
                             IF i = k THEN Scale
                             ELSE IF i < k THEN rv[<<i, k>>] ELSE rv[<<k, i>>]]]]

\* The pooled correlation of one pair lies off units from delta; or every
\* pair is either at delta or a quarter; or every correlation is 0.
RawCorr ==
    UNION {{WithCorr(BaseRaw(z[1], z[2]),
                     [pr \in PairsOf(z[1]) |->
                        IF pr = pp THEN Thresholds.delta + off ELSE Scale \div 4]) :
               pp \in PairsOf(z[1]), off \in (-MaxGap) .. MaxGap}
           \cup {WithCorr(BaseRaw(z[1], z[2]), rv) :
               rv \in [PairsOf(z[1]) -> {0, Scale \div 4, Thresholds.delta}]}
           : z \in Sizes}

\* The parsimony bounds vary, 0 and the number of criteria included.
RawPars ==
    UNION {{[BaseRaw(z[1], z[2]) EXCEPT !.omega = om, !.zeta = ze] :
               om \in 0 .. z[1] + 1, ze \in 0 .. z[1] + 1} : z \in Sizes}

\* The objectivity flags vary.
RawU ==
    UNION {{[BaseRaw(z[1], z[2]) EXCEPT !.u_values = uv] :
               uv \in [1..z[1] -> {0, 1}]} : z \in Sizes}

\* Every rating of one property is missing (read as 0).
RawZero ==
    UNION {{WithMetric(BaseRaw(z[1], z[2]), gate, [i \in 1..z[1] |-> 0]) :
               gate \in GateNames} : z \in Sizes}

RawInputs == RawGate \cup RawVeto \cup RawCorr \cup RawPars \cup RawU \cup RawZero

\* Structurally valid data: what read_mcdm_template returns for a workbook
\* with at least one criterion and one objective.
ValidData == {DerivedData(raw) : raw \in RawInputs}

\* Structurally invalid data: no criterion, no objective, or a pair that
\* names a criterion outside I.
InvalidData ==
    {DerivedData(BaseRaw(0, no)) : no \in 1 .. MaxObj}
    \cup {DerivedData(BaseRaw(n, 0)) : n \in 1 .. MaxCrit}
    \cup {LET d == DerivedData(BaseRaw(n, no))
              bad == <<1, n + 1>>
          IN  [d EXCEPT !.pairs = @ \cup {bad},
                        !.r = [p \in d.pairs \cup {bad} |->
                                 IF p = bad THEN Scale \div 4 ELSE d.r[p]],
                        !.tot_r = @ + Scale \div 4] :
           n \in 1 .. MaxCrit, no \in 1 .. MaxObj}

StructurallyValid(d) ==
    /\ d.I # {} /\ d.O # {}
    /\ \A p \in d.pairs : p[1] \in d.I /\ p[2] \in d.I

SlidersDefault == [k \in WeightKeys |-> SliderDefault(k)]

WeightChoices ==
    {Normalized(SlidersDefault),
     Normalized([k \in WeightKeys |-> IF k = "w1" THEN 100 ELSE 0])}

(***************************************************************************)
(* The assignments of a built model.  The candidates of each variable are  *)
(* cut down by the constraints that mention no other variable, in the      *)
(* order of the code; Feasible then decides.  The unbounded integer        *)
(* variables are bounded: a deviation is at most DevCap, and the excess of *)
(* the deviation pairs over their minimal values is at most MaxSlack in    *)
(* total.                                                                  *)
(***************************************************************************)
RECURSIVE GCD(_, _)
GCD(a, b) == IF b = 0 THEN a ELSE GCD(b, a % b)

Abs(a) == IF a < 0 THEN -a ELSE a
Min2(a, b) == IF a <= b THEN a ELSE b

RECURSIVE MaxOf(_)
MaxOf(S) == IF S = {} THEN 0 ELSE LET e == CHOOSE e \in S : TRUE IN Max2(e, MaxOf(S \ {e}))

Bin == {0, 1}

\* the values in [0, 1] that rho_def can ask of rho, in lowest terms
RhoValues(d) ==
    {f \in (0 .. Cardinality(d.I)) \X (1 .. Max2(1, Cardinality(d.I))) :
        f[1] <= f[2] /\ GCD(f[1], f[2]) = 1}

DevCap(d) ==
    MaxOf({Abs(d.omega), Abs(d.zeta), Cardinality(d.I)}
          \cup {d.L[o] : o \in d.O} \cup {d.U[o] : o \in d.O}) + MaxSlack

\* The deviation pairs whose smaller member, the excess over the minimal
\* pair, is k.
DevPairs(d, k) ==
    {dv \in (0 .. DevCap(d)) \X (0 .. DevCap(d)) : Min2(dv[1], dv[2]) = k}

\* One excess per deviation pair (two parsimony pairs, two band pairs per
\* objective), MaxSlack in total at most; by the number of objectives.
SlackIds(no) == ({"par"} \X {1, 2}) \cup ({"min", "max"} \X (1 .. no))

SlackVecs ==
    [no \in 0 .. MaxObj |->
       {sl \in [SlackIds(no) -> 0 .. MaxSlack] : SumF(sl, SlackIds(no)) <= MaxSlack}]

\* gate values allowed by the two big-M rows c1, c2 of the gate named f
GatePair(d, gate, y, i) ==
    CASE gate = "c" -> comp1(d, [yc |-> y], i) /\ comp2(d, [yc |-> y], i)
      [] gate = "m" -> meas1(d, [ym |-> y], i) /\ meas2(d, [ym |-> y], i)
      [] gate = "s" -> sens1(d, [ys |-> y], i) /\ sens2(d, [ys |-> y], i)
      [] gate = "ce" -> cost1(d, [yce |-> y], i) /\ cost2(d, [yce |-> y], i)
      [] gate = "a" -> align1(d, [ya |-> y], i) /\ align2(d, [ya |-> y], i)
      [] gate = "cc" -> cog1(d, [ycc |-> y], i) /\ cog2(d, [ycc |-> y], i)

GateSet(d, gate) == {y \in [d.I -> Bin] : \A i \in d.I : GatePair(d, gate, y, i)}

GateSets(d) ==
    GateSet(d, "c") \X GateSet(d, "m") \X GateSet(d, "s")
    \X GateSet(d, "ce") \X GateSet(d, "a") \X GateSet(d, "cc")

\* selections allowed by the gates g and the two vetoes
XSet(d, g) ==
    {x \in [d.I -> Bin] :
       LET v == [x |-> x, yc |-> g[1], ym |-> g[2], ys |-> g[3], yce |-> g[4],
                 ya |-> g[5], ycc |-> g[6]]
       IN  \A i \in d.I :
             /\ comp3(d, v, i) /\ meas3(d, v, i) /\ sens3(d, v, i)
             /\ cost3(d, v, i) /\ align3(d, v, i) /\ cog3(d, v, i)
             /\ mono(d, v, i) /\ rep_veto(d, v, i)}

\* the pair indicators <<h, t>> allowed with the selection x
HTSet(d, x) ==
    {hh \in [d.pairs -> Bin] \X [d.pairs -> Bin] :
       LET v == [h |-> hh[1], t |-> hh[2], x |-> x]
       IN  \A p \in d.pairs :
             /\ dist1(d, v, p) /\ dist2(d, v, p) /\ dist3(d, v, p)
             /\ t1(d, v, p) /\ t2(d, v, p) /\ t3(d, v, p)}

RhoSet(d, x) == {rr \in RhoValues(d) : rho_def(d, [rho |-> rr, x |-> x])}

\* the coverage counts allowed with the selection x
NSet(d, x) ==
    {nn \in [d.O -> 0 .. Cardinality(d.I)] :
       \A o \in d.O : rep_count(d, [n |-> nn, x |-> x], o)
                      /\ coverage(d, [n |-> nn], o)}

\* the deviations allowed with the selection x and the counts n
DevSet(d, x, n) ==
    LET N == SumF(x, d.I)
        P1 == [k \in 0 .. MaxSlack |->
                 {dv \in DevPairs(d, k) :
                    par1(d, [N |-> N, d1_minus |-> dv[1], d1_plus |-> dv[2]])}]
        P2 == [k \in 0 .. MaxSlack |->
                 {dv \in DevPairs(d, k) :
                    par2(d, [N |-> N, d2_minus |-> dv[1], d2_plus |-> dv[2]])}]
        R1 == [o \in d.O |-> [k \in 0 .. MaxSlack |->
                 {dv \in DevPairs(d, k) :
                    rep_min(d, [n |-> n, do1_minus |-> [oo \in d.O |-> dv[1]],
                                do1_plus |-> [oo \in d.O |-> dv[2]]], o)}]]
        R2 == [o \in d.O |-> [k \in 0 .. MaxSlack |->
                 {dv \in DevPairs(d, k) :
                    rep_max(d, [n |-> n, do2_minus |-> [oo \in d.O |-> dv[1]],
                                do2_plus |-> [oo \in d.O |-> dv[2]]], o)}]]
        Band(R, tag, sl) ==
            {f \in [d.O -> UNION {R[o][sl[<<tag, o>>]] : o \in d.O}] :
               \A o \in d.O : f[o] \in R[o][sl[<<tag, o>>]]}
    IN  UNION {{[p1 |-> a, p2 |-> b, b1 |-> f1, b2 |-> f2] :
                  a \in P1[sl[<<"par", 1>>]], b \in P2[sl[<<"par", 2>>]],
                  f1 \in Band(R1, "min", sl), f2 \in Band(R2, "max", sl)} :
               sl \in SlackVecs[Cardinality(d.O)]}

Assignments(d) ==
    UNION {UNION {UNION {UNION {UNION {
      {v \in
        {[x |-> x, yc |-> g[1], ym |-> g[2], ys |-> g[3], yce |-> g[4],
          ya |-> g[5], ycc |-> g[6], h |-> ht[1], t |-> ht[2], rho |-> rho,
          N |-> SumF(x, d.I),
          d1_minus |-> dv.p1[1], d1_plus |-> dv.p1[2],
          d2_minus |-> dv.p2[1], d2_plus |-> dv.p2[2],
          n |-> n,
          do1_minus |-> [o \in d.O |-> dv.b1[o][1]],
          do1_plus |-> [o \in d.O |-> dv.b1[o][2]],
          do2_minus |-> [o \in d.O |-> dv.b2[o][1]],
          do2_plus |-> [o \in d.O |-> dv.b2[o][2]]] : dv \in DevSet(d, x, n)} :
        Feasible(d, v)} :
      n \in NSet(d, x)} : rho \in RhoSet(d, x)} : ht \in HTSet(d, x)} :
      x \in XSet(d, g)} : g \in GateSets(d)}

(***************************************************************************)
(* The model is built from drawn inputs and an assignment satisfying its   *)
(* constraints is taken.                                                   *)
(***************************************************************************)
InitModel ==
    /\ current_step = 4
    /\ data \in ValidData \cup InvalidData
    /\ weights \in WeightChoices
    /\ model = None /\ result = None
    /\ sliders = SlidersDefault
    /\ built = None /\ asg = None /\ run = None
    /\ file = None /\ rng = Unseeded /\ rebuilt = None /\ extract = None

\* model = build_mcdm_model(data, weights)
Build ==
    /\ built = None
    /\ \E folds \in BOOLEAN : built' = build_mcdm_model(data, weights, folds)
    /\ UNCHANGED <<current_step, data, weights, model, result, sliders, asg, run, file, rng, rebuilt, extract>>

\* an assignment of the variables that satisfies every constraint of the model
Satisfy ==
    /\ built # None /\ built.status = "ok" /\ asg = None
    /\ asg' \in Assignments(built.M.data)
    /\ UNCHANGED <<current_step, data, weights, model, result, sliders, built, run, file, rng, rebuilt, extract>>

NextModel == Build \/ Satisfy

SpecModel == InitModel /\ [][NextModel]_vars

(***************************************************************************)
(* The value of the objective, in exact fractions <<num, den>>, den > 0.   *)
(***************************************************************************)
Frac(n, dn) ==
    LET g == GCD(Abs(n), Abs(dn))
    IN  IF dn < 0 THEN <<(-n) \div g, (-dn) \div g>> ELSE <<n \div g, dn \div g>>

FMul(a, b) ==
    LET a1 == Frac(a[1], b[2])
        b1 == Frac(b[1], a[2])
    IN  <<a1[1] * b1[1], a1[2] * b1[2]>>

FAdd(a, b) ==
    LET l == (a[2] \div GCD(a[2], b[2])) * b[2]
    IN  Frac(a[1] * (l \div a[2]) + b[1] * (l \div b[2]), l)

FNeg(a) == <<-a[1], a[2]>>

FLess(a, b) == a[1] * b[2] < b[1] * a[2]

RECURSIVE FSum(_, _)
FSum(f, S) ==
    IF S = {} THEN <<0, 1>>
    ELSE LET e == CHOOSE e \in S : TRUE IN FAdd(f[e], FSum(f, S \ {e}))

\* w * (num / den)
TermValue(t) == FMul(Frac(t.w[1], t.w[2]), Frac(t.num, t.den))

\* benefit + w2 * rho - redundancy_pen - parsimony_pen - rep_pen at v
ObjValue(M, v) ==
    LET d == M.data
        ob == M.obj
        benefit == FSum([i \in d.I |->
                           FMul(<<v.x[i], 1>>,
                                FSum([k \in 1..6 |-> TermValue(ob.benefit[i][k])], 1..6))], d.I)
        redundancy_pen == FSum([p \in d.pairs |->
                                  FMul(<<v.t[p], 1>>, TermValue(ob.redundancy[p]))], d.pairs)
        parsimony_pen == FAdd(FMul(<<v.d1_minus, 1>>, TermValue(ob.d1_minus)),
                              FMul(<<v.d2_plus, 1>>, TermValue(ob.d2_plus)))
        rep_pen == FAdd(FSum([o \in d.O |->
                                FMul(<<v.do1_minus[o], 1>>, TermValue(ob.do1_minus[o]))], d.O),
                        FSum([o \in d.O |->
                                FMul(<<v.do2_plus[o], 1>>, TermValue(ob.do2_plus[o]))], d.O))
    IN  FAdd(FAdd(benefit, FMul(Frac(v.rho[1], v.rho[2]), TermValue(ob.rho))),
             FNeg(FAdd(redundancy_pen, FAdd(parsimony_pen, rep_pen))))

(***************************************************************************)
(* pick_solver and the external solver.                                    *)
(***************************************************************************)
SolverNames == <<"cbc", "highs", "glpk">>

\* pick_solver that keeps probing and returns the last available backend
pick_solver_last(avail) ==
    LET lastOk == IF \E k \in 1..3 : avail[SolverNames[k]]
                  THEN CHOOSE k \in 1..3 :
                         avail[SolverNames[k]] /\ \A j \in (k + 1)..3 : ~avail[SolverNames[j]]
                  ELSE 0
    IN  IF lastOk = 0
        THEN [status |-> "raised", error |-> "RuntimeError", solver |-> "",
              probes |-> SolverNames]
        ELSE [status |-> "ok", error |-> "", solver |-> SolverNames[lastOk],
              probes |-> SolverNames]

\* avail: which backends s.available(False) reports; the names probed and
\* the backend returned ("" with RuntimeError when none is available)
pick_solver(avail) ==
    LET firstOk == IF \E k \in 1..3 : avail[SolverNames[k]]
                   THEN CHOOSE k \in 1..3 :
                          avail[SolverNames[k]] /\ \A j \in 1..(k - 1) : ~avail[SolverNames[j]]
                   ELSE 0
    IN  IF firstOk = 0
        THEN [status |-> "raised", error |-> "RuntimeError", solver |-> "",
              probes |-> SolverNames]
        ELSE [status |-> "ok", error |-> "", solver |-> SolverNames[firstOk],
              probes |-> SubSeq(SolverNames, 1, firstOk)]

\* The maximised objective grows without bound along a deviation pair: both
\* members of a pair may grow together, and the penalised member enters the
\* objective with the coefficient -TermValue.
Unbounded(M) ==
    \/ FLess(TermValue(M.obj.d1_minus), <<0, 1>>)
    \/ FLess(TermValue(M.obj.d2_plus), <<0, 1>>)
    \/ \E o \in M.data.O : \/ FLess(TermValue(M.obj.do1_minus[o]), <<0, 1>>)
                           \/ FLess(TermValue(M.obj.do2_plus[o]), <<0, 1>>)

\* The feasible assignments of greatest objective value.
Optimal(M) ==
    LET A == Assignments(M.data)
        val == [v \in A |-> ObjValue(M, v)]
    IN  {v \in A : \A u \in A : ~FLess(val[v], val[u])}

\* solver.solve(model): the termination condition and the values loaded
\* into the model.  A solver may also stop early ("other") with no values or
\* with a feasible incumbent.
SolveResults(M) ==
    LET A == Assignments(M.data)
    IN  (IF A = {} THEN {[termination |-> "infeasible", values |-> None]}
         ELSE IF Unbounded(M) THEN {[termination |-> "unbounded", values |-> None]}
         ELSE {[termination |-> "optimal", values |-> v] : v \in Optimal(M)})
        \cup {[termination |-> "other", values |-> v] : v \in A \cup {None}}

(***************************************************************************)
(* show_step4_run_optimization: the Run Optimization button.               *)
(***************************************************************************)
\* The try block up to the call of the solver, given the outcome b of
\* build_mcdm_model: the functions called, in order, and the exception that
\* ended it ("" when the solver is reached).
RunUntilSolve(b, avail) ==
    LET ps == pick_solver(avail)
    IN  IF b.status = "raised"
        THEN [calls |-> <<"build_mcdm_model">>, error |-> b.error, probes |-> <<>>,
              solver |-> ""]
        ELSE IF ps.status = "raised"
        THEN [calls |-> <<"build_mcdm_model", "pick_solver">>, error |-> ps.error,
              probes |-> ps.probes, solver |-> ""]
        ELSE [calls |-> <<"build_mcdm_model", "pick_solver", "solve">>, error |-> "",
              probes |-> ps.probes, solver |-> ps.solver]

\* Shown that reports the loaded selection whatever the termination
Shown_always(M, res) ==
    IF res.values # None
    THEN [message |-> "success",
          selected |-> {i \in DOMAIN res.values.x : res.values.x[i] = 1},
          rho |-> res.values.rho,
          obj |-> ObjValue(M, res.values)]
    ELSE [message |-> "No optimal solution found"]

\* What the page shows after a solve that returned: the selection, rho and
\* the objective value in the optimal branch, the message of the else
\* branch otherwise.
Shown(M, res) ==
    IF res.termination = "optimal"
    THEN [message |-> "success",
          selected |-> {i \in DOMAIN res.values.x : res.values.x[i] = 1},
          rho |-> res.values.rho,
          obj |-> ObjValue(M, res.values)]
    ELSE [message |-> "No optimal solution found"]

\* The st calls that report the outcome: the except block calls st.error and
\* st.exception, the else branch st.error, the optimal branch st.markdown
\* with the success box.
Reports(outcome) ==
    IF outcome = "error" THEN <<"st.error", "st.exception">>
    ELSE IF outcome = "optimal" THEN <<"st.markdown">>
    ELSE <<"st.error">>

\* The number of clicks of the button so far.
RunCount(r) == IF r = None THEN 0 ELSE r.count

\* The button is clicked, at most limit times, on a machine whose installed
\* solvers are one of Avails.
RunOptimizationOn(Avails, limit) ==
    /\ current_step = 4
    /\ data # None /\ weights # None
    /\ RunCount(run) < limit
    /\ LET ok == build_mcdm_model(data, weights, FALSE)
           results == IF ok.status = "ok" THEN SolveResults(ok.M) ELSE {}
       IN  \E folds \in BOOLEAN, avail \in Avails :
             LET b == build_mcdm_model(data, weights, folds)
                 pre == RunUntilSolve(b, avail)
             IN  IF pre.error # ""
                 THEN /\ run' = [calls |-> pre.calls, probes |-> pre.probes,
                                 avail |-> avail, solver |-> pre.solver,
                                 outcome |-> "error", error |-> pre.error,
                                 shown |-> [message |-> pre.error],
                                 reports |-> Reports("error"),
                                 count |-> RunCount(run) + 1]
                      /\ UNCHANGED <<model, result>>
                 ELSE \/ \E res \in results :
                           /\ model' = [M |-> b.M, values |-> res.values]
                           /\ result' = [termination |-> res.termination]
                           /\ run' = [calls |-> pre.calls, probes |-> pre.probes,
                                      avail |-> avail, solver |-> pre.solver,
                                      outcome |-> res.termination, error |-> "",
                                      shown |-> Shown(b.M, res),
                                      reports |-> Reports(res.termination),
                                      count |-> RunCount(run) + 1]
                      \/ \* solver.solve raises (the backend fails to run)
                         /\ run' = [calls |-> pre.calls, probes |-> pre.probes,
                                    avail |-> avail, solver |-> pre.solver,
                                    outcome |-> "error", error |-> "ApplicationError",
                                    shown |-> [message |-> "ApplicationError"],
                                    reports |-> Reports("error"),
                                    count |-> RunCount(run) + 1]
                         /\ UNCHANGED <<model, result>>
    /\ UNCHANGED <<current_step, data, weights, sliders, built, asg, file, rng, rebuilt, extract>>

RunOptimization == RunOptimizationOn([{"cbc", "highs", "glpk"} -> BOOLEAN], MaxRuns)

(***************************************************************************)
(* Inputs of the runs: the scenario of three criteria A, B, C (1, 2, 3)    *)
(* with objectives O1 = {A, B}, O2 = {C}, omega = 1, zeta = 2,             *)
(* correlation(A, B) = 0.9 and L = U = 1; base workbooks; workbooks that   *)
(* admit no selection; and the structurally invalid data.                  *)
(***************************************************************************)
ScenarioRaw(extraA, rOther) ==
    LET b == BaseRaw(3, 2)
        g3 == <<<<1, 0>>, <<1, 0>>, <<0, 1>>>>
        rv == [pr \in PairsOf(3) |-> IF pr = <<1, 2>> THEN (9 * Scale) \div 10 ELSE rOther]
    IN  WithCorr([b EXCEPT !.g_matrix = g3, !.omega = 1, !.zeta = 2,
                           !.c_values[1] = @ + extraA], rv)

WithBand(d, lo, up) ==
    [d EXCEPT !.L = [o \in d.O |-> lo], !.U = [o \in d.O |-> up],
              !.D = [o \in d.O |-> Max2(1, d.Io_dict[o] - up)]]

ScenarioData ==
    {WithBand(DerivedData(ScenarioRaw(extraA, rOther)), 1, 1) :
        extraA \in {0, Pass}, rOther \in {Scale \div 4, Scale \div 2}}

IsScenario(d) ==
    /\ d.I = 1..3 /\ d.O = 1..2
    /\ d.g = [p \in (1..3) \X (1..2) |->
                IF p \in {<<1, 1>>, <<2, 1>>, <<3, 2>>} THEN 1 ELSE 0]
    /\ d.omega = 1 /\ d.zeta = 2
    /\ d.r[<<1, 2>>] = (9 * Scale) \div 10 /\ d.delta = (3 * Scale) \div 4
    /\ \A o \in d.O : d.L[o] = 1 /\ d.U[o] = 1
    /\ \A i \in d.I :
         /\ d.c[i] >= d.alpha /\ d.m[i] >= d.gamma[i] /\ d.s[i] >= d.theta + d.eps
         /\ d.ce[i] >= d.tau[i] /\ d.a[i] >= d.lambda /\ d.cc[i] >= d.mu
         /\ d.q[i] = 1 /\ d.e_rp_dict[i] = 1

RunData ==
    ScenarioData
    \cup InvalidData
    \cup {DerivedData([BaseRaw(z[1], z[2]) EXCEPT !.zeta = ze, !.q_values[1] = qq]) :
             z \in {2} \X (1 .. 2), ze \in 1 .. 3, qq \in {0, 1}}

InitRun ==
    /\ current_step = 4
    /\ data \in RunData
    /\ weights \in WeightChoices
    /\ model = None /\ result = None
    /\ sliders = SlidersDefault
    /\ built = None /\ asg = None /\ run = None
    /\ file = None /\ rng = Unseeded /\ rebuilt = None /\ extract = None

NextRun == RunOptimization

SpecRun == InitRun /\ [][NextRun]_vars

(***************************************************************************)
(* Properties of the assignments of a built model (SpecModel).             *)
(***************************************************************************)
HasAsg == asg # None

\* the gate variable of a gate of the assignment v
GateVar(v, gate) ==
    CASE gate = "c"  -> v.yc
      [] gate = "m"  -> v.ym
      [] gate = "s"  -> v.ys
      [] gate = "ce" -> v.yce
      [] gate = "a"  -> v.ya
      [] gate = "cc" -> v.ycc

\* the metric and the threshold a gate compares for criterion i
GateMetric(d, gate, i) ==
    CASE gate = "c"  -> d.c[i]
      [] gate = "m"  -> d.m[i]
      [] gate = "s"  -> d.s[i]
      [] gate = "ce" -> d.ce[i]
      [] gate = "a"  -> d.a[i]
      [] gate = "cc" -> d.cc[i]

GateThreshold(d, gate, i) ==
    CASE gate = "c"  -> d.alpha
      [] gate = "m"  -> IF d.u[i] = 1 THEN Thresholds.gamma_O ELSE Thresholds.gamma_S
      [] gate = "s"  -> d.theta
      [] gate = "ce" -> IF d.u[i] = 1 THEN Thresholds.tau_O ELSE Thresholds.tau_S
      [] gate = "a"  -> d.lambda
      [] gate = "cc" -> d.mu

\* C1: in every assignment satisfying the constraints, a selected criterion
\* (x[i] = 1) has all six gate variables at 1, monotonicity-unanimity q[i] = 1
\* and representativeness flag e_rp[i] = 1.
C1_SelectedPassesGatesAndVetoes ==
    HasAsg =>
      \A i \in data.I :
         asg.x[i] = 1 =>
           /\ \A gate \in GateNames : GateVar(asg, gate)[i] = 1
           /\ data.q[i] = 1
           /\ data.e_rp_dict[i] = 1

\* a criterion is selected while another one, vetoed by q, is not
W_C1 ==
    /\ HasAsg
    /\ \E i \in data.I : asg.x[i] = 1
    /\ \E k \in data.I : asg.x[k] = 0 /\ data.q[k] = 0

\* C2: a criterion whose metric is strictly below the threshold of a gate has
\* that gate variable at 0 and x[i] = 0 in every assignment satisfying the
\* constraints.
X_C2_BelowThresholdExcluded ==
    HasAsg =>
      \A i \in data.I : \A gate \in GateNames :
         GateMetric(data, gate, i) < GateThreshold(data, gate, i) =>
           GateVar(asg, gate)[i] = 0 /\ asg.x[i] = 0

\* C3: for every pair whose pooled correlation is at least delta, h is 1 and
\* at most one of the two criteria is selected.
C3_CorrelatedPairExcluded ==
    HasAsg =>
      \A p \in data.pairs :
         data.r[p] >= data.delta =>
           asg.h[p] = 1 /\ asg.x[p[1]] + asg.x[p[2]] <= 1

\* a pair at or above delta of which exactly one criterion is selected
W_C3 ==
    /\ HasAsg
    /\ \E p \in data.pairs :
         data.r[p] >= data.delta /\ asg.x[p[1]] + asg.x[p[2]] = 1

\* C4: for every objective o, n[o] is the number of selected criteria mapped
\* to o, n[o] >= 1, and the two deviation pairs satisfy the band equalities
\* against L[o] and U[o] with all four deviations non-negative.
C4_CoverageCountAndBand ==
    HasAsg =>
      \A o \in data.O :
         /\ asg.n[o] = Cardinality({i \in data.I : asg.x[i] = 1 /\ data.g[<<i, o>>] = 1})
         /\ asg.n[o] >= 1
         /\ asg.n[o] + asg.do1_minus[o] - asg.do1_plus[o] = data.L[o]
         /\ asg.n[o] + asg.do2_minus[o] - asg.do2_plus[o] = data.U[o]
         /\ asg.do1_minus[o] \in Nat /\ asg.do1_plus[o] \in Nat
         /\ asg.do2_minus[o] \in Nat /\ asg.do2_plus[o] \in Nat

\* a selected criterion that is not mapped to an objective and is not
\* counted for it
W_C4 ==
    /\ HasAsg
    /\ \E o \in data.O : \E i \in data.I :
         asg.x[i] = 1 /\ data.g[<<i, o>>] = 0 /\ asg.n[o] = 1

\* C5: N is the number of selected criteria, the two parsimony equalities
\* hold with non-negative integer deviations, and for every selection x of a
\* built model deviations satisfying them exist.
C5_ParsimonyDeviations ==
    /\ HasAsg =>
         /\ asg.N = Cardinality({i \in data.I : asg.x[i] = 1})
         /\ asg.N + asg.d1_minus - asg.d1_plus = data.omega
         /\ asg.N + asg.d2_minus - asg.d2_plus = data.zeta
         /\ asg.d1_minus \in Nat /\ asg.d1_plus \in Nat
         /\ asg.d2_minus \in Nat /\ asg.d2_plus \in Nat
    /\ (built # None /\ built.status = "ok") =>
         \A x \in [data.I -> Bin] :
            \E a \in DevPairs(data, 0), b \in DevPairs(data, 0) :
               LET v == [N |-> SumF(x, data.I), d1_minus |-> a[1], d1_plus |-> a[2],
                         d2_minus |-> b[1], d2_plus |-> b[2]]
               IN  N_def(data, [N |-> v.N, x |-> x]) /\ par1(data, v) /\ par2(data, v)

\* fewer criteria selected than omega and more than zeta
W_C5 ==
    /\ HasAsg
    /\ asg.d1_minus > 0 /\ asg.d2_plus > 0

\* C6: when some criterion is objective (sum of u > 0), rho is the selected
\* share of the objective criteria, (sum of u[i] * x[i]) / (sum of u[i]), and
\* lies in [0, 1].
C6_ObjectivityRatio ==
    (HasAsg /\ SumF(data.u, data.I) > 0) =>
      /\ asg.rho[1] * SumF(data.u, data.I)
           = asg.rho[2] * Cardinality({i \in data.I : data.u[i] = 1 /\ asg.x[i] = 1})
      /\ 0 <= asg.rho[1] /\ asg.rho[1] <= asg.rho[2] /\ asg.rho[2] > 0

\* half of the objective criteria are selected
W_C6 ==
    /\ HasAsg
    /\ SumF(data.u, data.I) > 0
    /\ asg.rho = <<1, 2>>

\* C9: for every structurally valid input build_mcdm_model returns a model
\* without raising.
X_C9_ValidDataBuilds ==
    (built # None /\ StructurallyValid(data)) => built.status = "ok"


(***************************************************************************)
(* Properties of the runs (SpecRun).                                       *)
(***************************************************************************)
HasRun == run # None

\* C7: in the scenario of criteria A, B, C with O1 = {A, B}, O2 = {C},
\* omega = 1, zeta = 2, every gate and veto satisfied, correlation(A, B) =
\* 0.9 >= delta = 0.75 and L = U = 1, every optimal solution selects C and
\* exactly one of A and B, so that N = 2 = zeta.
C7_ScenarioOptimum ==
    (HasRun /\ IsScenario(data) /\ run.outcome = "optimal") =>
        /\ model.values.x \in {<<1, 0, 1>>, <<0, 1, 1>>}
        /\ model.values.N = 2
        /\ model.values.N = data.zeta

\* an optimal solution of the scenario was returned by the solver
W_C7 ==
    /\ HasRun /\ IsScenario(data) /\ run.outcome = "optimal"
    /\ model.values.x[3] = 1 /\ model.values.h[<<1, 2>>] = 1

\* C10: with structurally invalid derived data (no criterion, no objective,
\* or a pair naming an unknown criterion) build_mcdm_model raises, and the
\* run calls neither pick_solver nor solver.solve.
C10_InvalidDataFailsBeforeSolver ==
    (HasRun /\ ~StructurallyValid(data)) =>
        /\ \A folds \in BOOLEAN : build_mcdm_model(data, weights, folds).status = "raised"
        /\ run.outcome = "error"
        /\ run.calls = <<"build_mcdm_model">>
        /\ model = None /\ result = None

\* a run on data whose objective set is empty ended in the error of the build
W_C10 ==
    /\ HasRun /\ data.O = {} /\ data.I # {}
    /\ run.outcome = "error" /\ run.error = "ZeroDivisionError"

(***************************************************************************)
(* show_step3_set_weights: the page is rendered, and rendered again after  *)
(* every move of a slider; each rendering stores the normalized weights.   *)
(***************************************************************************)
\* the positions a slider is moved to, in hundredths
SliderValues(k) == {0, SliderDefault(k)}

show_step3_set_weights ==
    /\ current_step = 3
    /\ data # None
    /\ weights = None
    /\ weights' = Normalized(sliders)
    /\ UNCHANGED <<current_step, data, model, result, sliders, built, asg, run, file, rng, rebuilt, extract>>

\* one of the sliders keys is moved
SetSliderOf(keys) ==
    /\ current_step = 3
    /\ data # None
    /\ weights # None
    /\ \E k \in keys : \E val \in SliderValues(k) :
         /\ val # sliders[k]
         /\ sliders' = [sliders EXCEPT ![k] = val]
         /\ weights' = Normalized(sliders')
    /\ UNCHANGED <<current_step, data, model, result, built, asg, run, file, rng, rebuilt, extract>>

SetSlider == SetSliderOf(WeightKeys)

InitWeights ==
    /\ current_step = 3
    /\ data = DerivedData(BaseRaw(2, 1))
    /\ weights = None
    /\ model = None /\ result = None
    /\ sliders = SlidersDefault
    /\ built = None /\ asg = None /\ run = None
    /\ file = None /\ rng = Unseeded /\ rebuilt = None /\ extract = None

NextWeights == show_step3_set_weights \/ SetSlider

SpecWeights == InitWeights /\ [][NextWeights]_vars

\* C8: the 12 weights stored by show_step3_set_weights are each
\* non-negative and sum to 1, whatever the positions of the sliders.
\* Violated: with every slider at 0.0 the total is replaced by 1 and the
\* twelve stored weights are all 0.
X_C8_StoredWeightsSumToOne ==
    weights # None =>
        /\ \A k \in WeightKeys : weights[k][1] >= 0 /\ weights[k][2] > 0
        /\ SumF([k \in WeightKeys |-> weights[k][1]], WeightKeys) = weights["w1"][2]


\* C13: pick_solver probes cbc, highs, glpk once each in that order and
\* returns the first available one; when none is available it raises
\* RuntimeError, and the run reports the error once, solves nothing and
\* does not retry.
C13_SolverProbeOrder ==
    (HasRun /\ Len(run.calls) >= 2) =>
        LET n == Len(run.probes)
            none == \A nm \in {"cbc", "highs", "glpk"} : ~run.avail[nm]
        IN  /\ n \in 1..3
            /\ run.probes = SubSeq(<<"cbc", "highs", "glpk">>, 1, n)
            /\ \A j \in 1..(n - 1) : ~run.avail[run.probes[j]]
            /\ ~none => /\ run.avail[run.probes[n]]
                        /\ run.solver = run.probes[n]
                        /\ run.calls = <<"build_mcdm_model", "pick_solver", "solve">>
            /\ none => /\ n = 3
                       /\ run.error = "RuntimeError" /\ run.outcome = "error"
                       /\ run.calls = <<"build_mcdm_model", "pick_solver">>
                       /\ Len(SelectSeq(run.reports, LAMBDA c : c = "st.error")) = 1

\* no backend is available and the run ended in the RuntimeError
W_C13 ==
    /\ HasRun /\ run.error = "RuntimeError"
    /\ run.probes = <<"cbc", "highs", "glpk">>

\* C14: when the solver returns a termination condition other than optimal
\* the run ends in the 'no optimal solution' outcome without an exception;
\* the selection, rho and the objective value are reported only when the
\* termination condition is optimal.
C14_NonOptimalOutcome ==
    HasRun =>
        /\ (run.error = "" /\ result.termination # "optimal") =>
              /\ run.outcome # "error"
              /\ run.shown = [message |-> "No optimal solution found"]
              /\ run.reports = <<"st.error">>
        /\ ({"selected", "rho", "obj"} \cap DOMAIN run.shown # {}) =>
              /\ run.error = "" /\ result.termination = "optimal"
              /\ {"selected", "rho", "obj"} \subseteq DOMAIN run.shown

\* the solver stopped early with a feasible incumbent loaded in the model
W_C14 ==
    /\ HasRun /\ run.error = ""
    /\ result.termination = "other" /\ model.values # None


(***************************************************************************)
(* Properties of the indicator constraints of a built model (SpecModel).   *)
(***************************************************************************)
HasModel == built # None /\ built.status = "ok"

\* the values of h[p] that dist1 and dist2 admit
HSet(d, p) == {b \in Bin : dist1(d, [h |-> p :> b], p) /\ dist2(d, [h |-> p :> b], p)}

\* C19: a criterion whose metric equals its threshold meets it, for each of
\* the six gates alike: the gate variable may be 1.
\* Violated: at s[i] = theta the sensitivity gate admits ys[i] = 0 only.
X_C19_EqualityMeetsThreshold ==
    HasModel =>
      \A i \in data.I : \A gate \in GateNames :
         GateMetric(data, gate, i) = GateThreshold(data, gate, i) =>
           \E y \in GateSet(data, gate) : y[i] = 1

\* C20: the two big-M inequalities of every gate, and of every indicator
\* h, are satisfied by at least one value of the indicator.
\* Violated: with 0 < s[i] - theta < eps neither value of ys[i] satisfies
\* sens1 and sens2.
X_C20_IndicatorNeverInfeasible ==
    HasModel =>
      /\ \A gate \in GateNames : GateSet(data, gate) # {}
      /\ \A p \in data.pairs : HSet(data, p) # {}


(***************************************************************************)
(* build_mcdm_model called twice on the same data and weights, as for a    *)
(* what-if rebuild.  The function reads the entries of data and weights    *)
(* into locals and creates a new ConcreteModel; it writes to neither       *)
(* dictionary and keeps nothing between calls.                             *)
(***************************************************************************)
\* a build that rescales the parsimony target in the caller's dictionary
DataAfterBuild_rescaled(d) == [d EXCEPT !.zeta = @ + 1]

\* the data dictionary as the call leaves it
DataAfterBuild(d) == d

BuildTwice ==
    /\ built = None /\ rebuilt = None
    /\ \E folds \in BOOLEAN :
         /\ built' = build_mcdm_model(data, weights, folds)
         /\ rebuilt' = build_mcdm_model(DataAfterBuild(data), weights, folds)
    /\ data' = DataAfterBuild(DataAfterBuild(data))
    /\ UNCHANGED <<current_step, weights, model, result, sliders, asg, run, file, rng, extract>>

InitBuild ==
    /\ current_step = 4
    /\ data \in ValidData \cup InvalidData
    /\ weights \in WeightChoices
    /\ model = None /\ result = None
    /\ sliders = SlidersDefault
    /\ built = None /\ asg = None /\ run = None
    /\ file = None /\ rng = Unseeded /\ rebuilt = None /\ extract = None

NextBuild == BuildTwice

SpecBuild == InitBuild /\ [][NextBuild]_vars

Num(v) == [kind |-> "num", v |-> v]
Blank == [kind |-> "blank", v |-> 0]
Text == [kind |-> "text", v |-> 0]
ErrorCell == [kind |-> "error", v |-> 0]
NaN == [kind |-> "nan", v |-> 0]

IsNum(c) == c.kind = "num"

\* pd.notna(value)
notna(c) == c.kind \in {"num", "text"}

\* the cells of a range that hold numbers
NumIdx(f) == {e \in DOMAIN f : IsNum(f[e])}

\* =SUM(range): empty and text cells are skipped
ExcelSUM(f) == SumF([e \in NumIdx(f) |-> f[e].v], NumIdx(f))

\* the value at position pos (from 0) of the numbers of the range in order
ValueAt(f, pos) ==
    CHOOSE v \in {f[e].v : e \in NumIdx(f)} :
        /\ Cardinality({e \in NumIdx(f) : f[e].v < v}) <= pos
        /\ pos < Cardinality({e \in NumIdx(f) : f[e].v <= v})

\* =MEDIAN(range): #NUM! when the range holds no number
ExcelMEDIAN(f) ==
    LET k == Cardinality(NumIdx(f))
    IN  IF k = 0 THEN ErrorCell
        ELSE Num((ValueAt(f, (k - 1) \div 2) + ValueAt(f, k \div 2)) \div 2)

RECURSIVE ProdF(_, _)
ProdF(f, S) ==
    IF S = {} THEN 1
    ELSE LET e == CHOOSE e \in S : TRUE IN f[e].v * ProdF(f, S \ {e})

\* =PRODUCT(range): empty cells are skipped, 0 when there is no number
ExcelPRODUCT(f) == IF NumIdx(f) = {} THEN Num(0) ELSE Num(ProdF(f, NumIdx(f)))

\* the majority formula with the tie resolved to 1
MajorityFormula_tie(votes, num_experts) ==
    IF \E e \in DOMAIN votes : votes[e].kind = "text" THEN ErrorCell
    ELSE IF 2 * ExcelSUM(votes) >= num_experts THEN Num(1) ELSE Num(0)

\* =IF(SUM(votes) > num_experts/2, 1, 0), the Binary column of 2_Objectivity
\* and the consolidated cells of 11_Representativeness
MajorityFormula(votes, num_experts) ==
    IF \E e \in DOMAIN votes : votes[e].kind = "text" THEN ErrorCell
    ELSE IF 2 * ExcelSUM(votes) > num_experts THEN Num(1) ELSE Num(0)

ScoreSheets == {"c", "m", "ce", "a", "cc"}

\* the formula cells as the spreadsheet application evaluates them
Evaluate(wb) ==
    LET n == wb.cfg.num_criteria
        O == 1 .. wb.cfg.num_objectives
        E == wb.cfg.num_experts
    IN  [median |-> [sh \in ScoreSheets |-> [i \in 1 .. n |-> ExcelMEDIAN(wb.scores[sh][i])]],
         u |-> [i \in 1 .. n |-> MajorityFormula(wb.obj_votes[i], E)],
         q |-> [i \in 1 .. n |-> ExcelPRODUCT(wb.mono_votes[i])],
         g |-> [i \in 1 .. n |-> [o \in O |->
                  MajorityFormula([e \in 1 .. E |-> wb.assign[e][i][o]], E)]]]

\* the formula cells of a workbook saved without evaluating the formulas
NotEvaluated(wb) ==
    LET n == wb.cfg.num_criteria
        O == 1 .. wb.cfg.num_objectives
    IN  [median |-> [sh \in ScoreSheets |-> [i \in 1 .. n |-> Blank]],
         u |-> [i \in 1 .. n |-> Blank],
         q |-> [i \in 1 .. n |-> Blank],
         g |-> [i \in 1 .. n |-> [o \in O |-> Blank]]]

\* the workbook as uploaded
Saved(wb, calc) ==
    [cfg |-> wb.cfg, scores |-> wb.scores, obj_votes |-> wb.obj_votes,
     mono_votes |-> wb.mono_votes, dist |-> wb.dist, sens |-> wb.sens,
     assign |-> wb.assign, calc |-> calc,
     cached |-> IF calc THEN Evaluate(wb) ELSE NotEvaluated(wb)]

(***************************************************************************)
(* read_mcdm_template, from the configuration sheet to the coverage        *)
(* matrix, and the pair dictionary and its total.  A float is a number or  *)
(* NaN.  A correlation is kept as its square, an exact fraction; a pooled  *)
(* correlation as the two middle squares lo and hi of the experts' values, *)
(* standing for (sqrt(lo) + sqrt(hi)) / 2.  The elasticities are kept as   *)
(* the normalized matrices and the drawn weight vectors they are computed  *)
(* from.                                                                   *)
(***************************************************************************)
num_simulations == 1000
NumpySeed == 42

\* df[median_col].head(num_criteria).tolist(): the cell as a float
ReadFloat(c) == IF IsNum(c) THEN c ELSE IF c.kind = "text" THEN c ELSE NaN

\* .astype(int) raises on a column that holds NaN or text
AsIntRaises(col) == \E i \in DOMAIN col : ~IsNum(col[i])

\* float(value) if pd.notna(value) else 0.0, over a decision matrix
MatrixRaises(mat) ==
    \E a \in DOMAIN mat : \E c \in DOMAIN mat[a] : mat[a][c].kind = "text"

MatrixValues(mat) ==
    [a \in DOMAIN mat |-> [c \in DOMAIN mat[a] |->
        IF notna(mat[a][c]) THEN mat[a][c].v ELSE 0]]

\* A times the sum of products minus the product of sums, over the rows
CoMoment(m, i, k) ==
    LET R == DOMAIN m
    IN  Cardinality(R) * SumF([a \in R |-> m[a][i] * m[a][k]], R)
        - SumF([a \in R |-> m[a][i]], R) * SumF([a \in R |-> m[a][k]], R)

NaNCorr == [kind |-> "nan", lo |-> <<0, 1>>, hi |-> <<0, 1>>]

\* matrix.corr().abs() at (i, k): NaN when a column has no variance
corr_abs(m, i, k) ==
    IF CoMoment(m, i, i) = 0 \/ CoMoment(m, k, k) = 0 THEN NaNCorr
    ELSE LET sq == Frac(CoMoment(m, i, k) * CoMoment(m, i, k),
                        CoMoment(m, i, i) * CoMoment(m, k, k))
         IN  [kind |-> "num", lo |-> sq, hi |-> sq]

\* the square at position pos (from 0) of the experts' values in order
SquareAt(vals, pos) ==
    CHOOSE v \in {vals[e].lo : e \in DOMAIN vals} :
        /\ Cardinality({e \in DOMAIN vals : FLess(vals[e].lo, v)}) <= pos
        /\ pos < Cardinality({e \in DOMAIN vals : ~FLess(v, vals[e].lo)})

\* np.median over the experts: NaN when any expert's value is NaN
pooled_corr(mats, i, k) ==
    LET vals == [e \in DOMAIN mats |-> corr_abs(mats[e], i, k)]
        E == Len(mats)
    IN  IF \E e \in DOMAIN vals : vals[e].kind = "nan" THEN NaNCorr
        ELSE [kind |-> "num", lo |-> SquareAt(vals, (E - 1) \div 2),
              hi |-> SquareAt(vals, E \div 2)]

ColMax(m, c) == CHOOSE v \in {m[a][c] : a \in DOMAIN m} : \A a \in DOMAIN m : m[a][c] <= v
ColMin(m, c) == CHOOSE v \in {m[a][c] : a \in DOMAIN m} : \A a \in DOMAIN m : m[a][c] >= v

\* normalize_matrix that scales every column as a benefit column
normalize_matrix_benefit(m, types) ==
    [a \in DOMAIN m |-> [c \in DOMAIN m[a] |->
        IF ColMax(m, c) = ColMin(m, c) THEN <<1, 1>>
        ELSE Frac(m[a][c] - ColMin(m, c), ColMax(m, c) - ColMin(m, c))]]

normalize_matrix(m, types) ==
    [a \in DOMAIN m |-> [c \in DOMAIN m[a] |->
        IF ColMax(m, c) = ColMin(m, c) THEN <<1, 1>>
        ELSE IF types[c] = "Benefit"
             THEN Frac(m[a][c] - ColMin(m, c), ColMax(m, c) - ColMin(m, c))
             ELSE Frac(ColMax(m, c) - m[a][c], ColMax(m, c) - ColMin(m, c))]]

\* the generator is left wherever the caller had it
SeedBeforeDraws_none(g) == g

\* np.random.seed(42)
SeedBeforeDraws(g) == Rng(NumpySeed, 0)

\* np.random.dirichlet(np.ones(k), sims): the vectors are determined by the
\* state of the generator and the shape
dirichlet(g, k, sims) == [seed |-> g.seed, from |-> g.drawn, shape |-> <<sims, k>>]

AfterDraws(g, k, sims) == Rng(g.seed, g.drawn + k * sims)

\* sum(r.values()): NaN when a term is NaN
TotalCorr(r) ==
    [kind |-> IF \E p \in DOMAIN r : r[p].kind = "nan" THEN "nan" ELSE "num",
     terms |-> r]

\* the flags of a reader that takes every criterion as mapped
e_rp_list_all(g_matrix) == [i \in DOMAIN g_matrix |-> 1]

\* e_rp = (g_matrix.sum(axis=1) >= 1).astype(int).tolist()
e_rp_list(g_matrix) ==
    [i \in DOMAIN g_matrix |->
        IF SumF(g_matrix[i], DOMAIN g_matrix[i]) >= 1 THEN 1 ELSE 0]

\* Io = g_matrix.sum(axis=0).tolist()
Io_list(g_matrix, O) ==
    [o \in O |-> SumF([i \in DOMAIN g_matrix |-> g_matrix[i][o]], DOMAIN g_matrix)]

\* the deficit bound without the floor of 1
D_dict_unfloored(Io_d, U) == [o \in DOMAIN Io_d |-> Io_d[o] - U[o]]

\* D = {o: max(1, Io_dict[o] - U[o]) for o in O}
D_dict(Io_d, U) == [o \in DOMAIN Io_d |-> Max2(1, Io_d[o] - U[o])]

read_mcdm_template(wb, g) ==
    LET n == wb.cfg.num_criteria
        I == 1 .. n
        O == 1 .. wb.cfg.num_objectives
        seeded == SeedBeforeDraws(g)
        random_weights == dirichlet(seeded, n, num_simulations)
        drawn == AfterDraws(seeded, n, num_simulations)
        decision_matrices == [e \in DOMAIN wb.dist |-> MatrixValues(wb.dist[e])]
        normalized_matrices ==
            [e \in DOMAIN wb.sens |->
                normalize_matrix(MatrixValues(wb.sens[e]), wb.cfg.criteria_types)]
        pairs == {p \in I \X I : p[1] < p[2]}
        r == [p \in pairs |-> pooled_corr(decision_matrices, p[1], p[2])]
        g_matrix == [i \in I |-> [o \in O |->
                       IF notna(wb.cached.g[i][o]) THEN wb.cached.g[i][o].v ELSE 0]]
        results ==
            [num_criteria |-> n,
             num_alternatives |-> wb.cfg.num_alternatives,
             num_experts |-> wb.cfg.num_experts,
             num_objectives |-> wb.cfg.num_objectives,
             omega |-> wb.cfg.omega, zeta |-> wb.cfg.zeta,
             c_values |-> [i \in I |-> ReadFloat(wb.cached.median["c"][i])],
             u_values |-> [i \in I |-> wb.cached.u[i].v],
             m_values |-> [i \in I |-> ReadFloat(wb.cached.median["m"][i])],
             s_values |-> [j \in I |-> [norm |-> normalized_matrices,
                                        weights |-> random_weights, j |-> j]],
             ce_values |-> [i \in I |-> ReadFloat(wb.cached.median["ce"][i])],
             a_values |-> [i \in I |-> ReadFloat(wb.cached.median["a"][i])],
             cc_values |-> [i \in I |-> ReadFloat(wb.cached.median["cc"][i])],
             q_values |-> [i \in I |-> wb.cached.q[i].v],
             g_matrix |-> g_matrix,
             e_rp |-> e_rp_list(g_matrix), Io |-> Io_list(g_matrix, O),
             I |-> I, O |-> O,
             g |-> [p \in I \X O |-> g_matrix[p[1]][p[2]]],
             e_rp_dict |-> e_rp_list(g_matrix), Io_dict |-> Io_list(g_matrix, O),
             L |-> [o \in O |-> L_const], U |-> [o \in O |-> U_const],
             D |-> D_dict(Io_list(g_matrix, O), [o \in O |-> U_const]),
             pairs |-> pairs, r |-> r, tot_r |-> TotalCorr(r)]
    IN  IF \/ AsIntRaises(wb.cached.u)
           \/ (\E e \in DOMAIN wb.dist : MatrixRaises(wb.dist[e]))
           \/ (\E e \in DOMAIN wb.sens : MatrixRaises(wb.sens[e]))
        THEN [status |-> "raised", error |-> "ValueError", rng |-> g]
        ELSE IF \/ AsIntRaises(wb.cached.q)
                \/ (\E i \in I : \E o \in O : wb.cached.g[i][o].kind = "text")
        THEN [status |-> "raised", error |-> "ValueError", rng |-> drawn]
        ELSE [status |-> "ok", error |-> "", rng |-> drawn, results |-> results]

(***************************************************************************)
(* The workbooks that are uploaded: a template generated in step 1 (every  *)
(* number_input of the sizes and of omega and zeta has min_value 1), filled *)
(* by the experts and saved.  One region of the base workbook is varied at *)
(* a time.                                                                  *)
(***************************************************************************)
ScoreCells == {Blank, Num(10), Num(14)}
VoteCells == {Blank, Num(0), Num(1)}
MatrixCells == {Blank, Text, Num(1), Num(2)}

BaseCell(e, a, c) == IF c = 1 THEN a ELSE ((a * e) % 5) + 1

BaseWorkbook(n, A, E, no) ==
    [cfg |-> [num_criteria |-> n, num_alternatives |-> A, num_experts |-> E,
              num_objectives |-> no, omega |-> 1, zeta |-> 1,
              criteria_types |-> [c \in 1 .. n |->
                                    IF c % 2 = 1 THEN "Benefit" ELSE "Cost"]],
     scores |-> [sh \in ScoreSheets |-> [i \in 1 .. n |-> [e \in 1 .. E |-> Num(14)]]],
     obj_votes |-> [i \in 1 .. n |-> [e \in 1 .. E |-> Num(1)]],
     mono_votes |-> [i \in 1 .. n |-> [e \in 1 .. E |-> Num(1)]],
     dist |-> [e \in 1 .. E |-> [a \in 1 .. A |-> [c \in 1 .. n |-> Num(BaseCell(e, a, c))]]],
     sens |-> [e \in 1 .. E |-> [a \in 1 .. A |-> [c \in 1 .. n |-> Num(BaseCell(e, a, c))]]],
     assign |-> [e \in 1 .. E |-> [i \in 1 .. n |-> [o \in 1 .. no |->
                   IF o = ((i - 1) % no) + 1 THEN Num(1) ELSE Num(0)]]]]

\* column 1 of expert 1's matrix replaced by col
WithColumn(mats, col) ==
    [mats EXCEPT ![1] = [a \in DOMAIN mats[1] |-> [mats[1][a] EXCEPT ![1] = col[a]]]]

Variants(b) ==
    LET E == b.cfg.num_experts
        A == b.cfg.num_alternatives
    IN  {[b EXCEPT !.cfg.omega = om, !.cfg.zeta = ze] :
            om \in 1 .. MaxPars, ze \in 1 .. MaxPars}
        \cup {[b EXCEPT !.scores[sh][1] = row] :
                sh \in ScoreSheets, row \in [1 .. E -> ScoreCells]}
        \cup {[b EXCEPT !.obj_votes[1] = row] : row \in [1 .. E -> VoteCells]}
        \cup {[b EXCEPT !.mono_votes[1] = row] : row \in [1 .. E -> VoteCells]}
        \cup {[b EXCEPT !.assign = [e \in 1 .. E |-> [@[e] EXCEPT ![1][1] = row[e]]]] :
                row \in [1 .. E -> VoteCells]}
        \cup {[b EXCEPT !.dist = WithColumn(@, col)] : col \in [1 .. A -> MatrixCells]}
        \cup {[b EXCEPT !.sens = WithColumn(@, col)] : col \in [1 .. A -> MatrixCells]}

\* the assignment rows of criterion 1: every expert marks any of the
\* objectives, one, several or none
AssignVariants(b) ==
    LET E == b.cfg.num_experts
        Rows == [1 .. b.cfg.num_objectives -> {Num(0), Num(1)}]
    IN  {[b EXCEPT !.assign = [e \in 1 .. E |-> [@[e] EXCEPT ![1] = rows[e]]]] :
            rows \in [1 .. E -> Rows]}

Workbooks ==
    UNION {{Saved(wb, TRUE) : wb \in Variants(BaseWorkbook(2, A, E, 1))}
           \cup {Saved(BaseWorkbook(2, A, E, 1), FALSE)} :
              A \in 2 .. MaxAlt, E \in 2 .. MaxExp}
    \cup UNION {{Saved(wb, TRUE) : wb \in AssignVariants(BaseWorkbook(2, 2, E, no))} :
                  E \in 2 .. MaxExp, no \in 2 .. MaxObj}
    \cup {Saved(BaseWorkbook(n, 2, 2, 1), TRUE) : n \in 3 .. MaxReadCrit}

(***************************************************************************)
(* show_step2_upload_extract: a file is chosen in the uploader; the        *)
(* Extract Data button reads it and stores the result in the session.      *)
(***************************************************************************)
UploadFile ==
    /\ current_step = 2
    /\ file = None
    /\ file' \in Workbooks
    /\ UNCHANGED <<current_step, data, weights, model, result, sliders, built, asg, run,
                   rng, rebuilt, extract>>

ExtractCount(x) == IF x = None THEN 0 ELSE x.count

\* An uploaded file given by what read_mcdm_template makes of it: the
\* dictionary it returns, or the exception of a file without the sheets.
Parsed(d) == [kind |-> "parsed", results |-> d]
Unreadable == [kind |-> "unreadable"]

\* data = read_mcdm_template(uploaded_file)
ReadFile(f, g) ==
    IF "cfg" \in DOMAIN f THEN read_mcdm_template(f, g)
    ELSE IF f = Unreadable THEN [status |-> "raised", error |-> "ValueError", rng |-> g]
    ELSE [status |-> "ok", error |-> "", results |-> f.results,
          rng |-> AfterDraws(SeedBeforeDraws(g), Cardinality(f.results.I),
                             num_simulations)]

\* an except branch that forgets the stored data
DataAfterExtract_cleared(out, d) == IF out.status = "ok" THEN out.results ELSE None

\* st.session_state.data = data, skipped when read_mcdm_template raised
DataAfterExtract(out, d) == IF out.status = "ok" THEN out.results ELSE d

ExtractData ==
    /\ current_step = 2
    /\ file # None
    /\ ExtractCount(extract) < MaxExtracts
    /\ LET out == ReadFile(file, rng)
       IN  /\ rng' = out.rng
           /\ data' = DataAfterExtract(out, data)
           /\ extract' = [status |-> out.status, error |-> out.error,
                          count |-> ExtractCount(extract) + 1,
                          previous |-> data]
    /\ UNCHANGED <<current_step, weights, model, result, sliders, built, asg, run,
                   file, rebuilt>>

InitRead ==
    /\ current_step = 2
    /\ data = None /\ weights = None
    /\ model = None /\ result = None
    /\ sliders = SlidersDefault
    /\ built = None /\ asg = None /\ run = None
    /\ file = None /\ rng \in {Unseeded, Rng(7, 3)} /\ rebuilt = None /\ extract = None

NextRead == UploadFile \/ ExtractData

SpecRead == InitRead /\ [][NextRead]_vars

(***************************************************************************)
(* Properties of the extraction (SpecRead).                                *)
(***************************************************************************)
Extracted == extract # None /\ extract.status = "ok"

\* the column of criterion c has no variance in expert e's decision matrix
ZeroVariance(wb, e, c) == CoMoment(MatrixValues(wb.dist[e]), c, c) = 0

ZeroCorr == [kind |-> "num", lo |-> <<0, 1>>, hi |-> <<0, 1>>]

\* C11: when a criterion column of some expert's decision matrix has zero
\* variance, the pooled correlation of every pair with that criterion is the
\* number 0, and every r[(i, k)] and tot_r is a number.
\* Violated: matrix.corr() gives NaN for the column, np.median keeps it,
\* and r and tot_r are NaN.
X_C11_ZeroVarianceGivesZero ==
    Extracted =>
        /\ \A p \in data.pairs :
             (\E e \in DOMAIN file.dist : \E k \in 1 .. 2 : ZeroVariance(file, e, p[k]))
                => data.r[p] = ZeroCorr
        /\ \A p \in data.pairs : data.r[p].kind = "num"
        /\ data.tot_r.kind = "num"

\* the median scores of a sheet, as read
ScoresRead(d, sh) ==
    CASE sh = "c" -> d.c_values
      [] sh = "m" -> d.m_values
      [] sh = "ce" -> d.ce_values
      [] sh = "a" -> d.a_values
      [] sh = "cc" -> d.cc_values

\* C12: read_mcdm_template completes without raising whatever cell is
\* missing or invalid, and a missing cell is read as 0: no score handed on
\* is NaN.
\* Violated: a median cell without a cached number is read as NaN, and a
\* flag cell without one makes astype(int) raise.
X_C12_MissingCellsReadAsZero ==
    extract # None =>
        /\ extract.status = "ok"
        /\ \A sh \in ScoreSheets : \A i \in data.I :
             /\ ScoresRead(data, sh)[i].kind = "num"
             /\ ~IsNum(file.cached.median[sh][i]) => ScoresRead(data, sh)[i] = Num(0)

\* C16: extracting twice from the same workbook gives the same elasticity
\* values, wherever the generator stood before each extraction.
C16_SensitivityReproducible ==
    (Extracted /\ extract.previous # None) =>
        data.s_values = extract.previous.s_values

\* a second extraction, the first of which started from a generator that
\* had been used
W_C16 ==
    /\ Extracted /\ extract.count = 2 /\ extract.previous # None
    /\ rng = Rng(NumpySeed, 2 * num_simulations)
    /\ \E e \in DOMAIN file.sens : file.sens[e][1][1] = Blank

\* the votes of a range are all 0 or 1; the number of positive ones
BinaryVotes(votes) == \A e \in DOMAIN votes : votes[e] \in {Num(0), Num(1)}
Positive(votes) == Cardinality({e \in DOMAIN votes : votes[e] = Num(1)})

\* C17: with binary votes of E experts the consolidated objectivity class
\* of a criterion and the consolidated assignment of a criterion to an
\* objective are 1 exactly when more than E/2 votes are positive; an exact
\* half gives 0.
C17_StrictMajority ==
    (file # None /\ file.calc) =>
        LET E == file.cfg.num_experts
            I == 1 .. file.cfg.num_criteria
            O == 1 .. file.cfg.num_objectives
            cell_votes(i, o) == [e \in 1 .. E |-> file.assign[e][i][o]]
        IN  /\ \A i \in I : BinaryVotes(file.obj_votes[i]) =>
                 /\ file.cached.u[i] \in {Num(0), Num(1)}
                 /\ file.cached.u[i] = Num(1) <=> 2 * Positive(file.obj_votes[i]) > E
                 /\ 2 * Positive(file.obj_votes[i]) = E => file.cached.u[i] = Num(0)
            /\ \A i \in I : \A o \in O : BinaryVotes(cell_votes(i, o)) =>
                 /\ file.cached.g[i][o] \in {Num(0), Num(1)}
                 /\ file.cached.g[i][o] = Num(1) <=> 2 * Positive(cell_votes(i, o)) > E
                 /\ 2 * Positive(cell_votes(i, o)) = E => file.cached.g[i][o] = Num(0)

\* two experts split their objectivity votes on a criterion
W_C17 ==
    /\ file # None /\ file.calc
    /\ file.cfg.num_experts = 2
    /\ \E i \in 1 .. file.cfg.num_criteria :
         /\ BinaryVotes(file.obj_votes[i]) /\ Positive(file.obj_votes[i]) = 1
         /\ file.cached.u[i] = Num(0)

\* C18: the data stored by the wizard's extraction has omega <= zeta.
\* Violated: step 1 accepts omega = 2 with zeta = 1, and the pair is written
\* to the configuration sheet and read back unchanged.
X_C18_OmegaAtMostZeta ==
    (Extracted /\ data # None) => data.omega <= data.zeta


(***************************************************************************)
(* Properties of the joint-selection indicator, the coverage data and the  *)
(* objective of a built model (SpecModel).                                 *)
(***************************************************************************)
\* C21: in every assignment satisfying the constraints, t[(i, k)] = 1
\* exactly when x[i] = 1 and x[k] = 1, whatever h[(i, k)] is and whether or
\* not r[(i, k)] reaches delta; the redundancy term of the pair is the
\* coefficient r[(i, k)] / tot_r times t[(i, k)].
C21_JointSelectionIndicator ==
    (HasAsg /\ HasModel) =>
        \A p \in built.M.data.pairs :
            /\ asg.t[p] = 1 <=> (asg.x[p[1]] = 1 /\ asg.x[p[2]] = 1)
            /\ built.M.obj.redundancy[p].num = built.M.data.r[p]
            /\ built.M.obj.redundancy[p].den = built.M.data.tot_r

\* both criteria of a pair below delta are selected: h = 0 and t = 1
W_C21 ==
    /\ HasAsg /\ HasModel
    /\ \E p \in built.M.data.pairs :
         /\ built.M.data.r[p] < built.M.data.delta /\ built.M.data.r[p] > 0
         /\ asg.h[p] = 0 /\ asg.t[p] = 1
         /\ asg.x[p[1]] = 1 /\ asg.x[p[2]] = 1


(***************************************************************************)
(* Properties of the coverage data and of the normalisation (SpecRead).    *)
(***************************************************************************)
\* the consolidated row of criterion i holds a 1
RowHasOne(d, i) == \E o \in d.O : d.g_matrix[i][o] = 1

\* the votes of the experts for criterion i and objective o
CellVotes(wb, i, o) == [e \in 1 .. wb.cfg.num_experts |-> wb.assign[e][i][o]]

\* C22: e_rp[i] is 1 exactly when the consolidated coverage row of i holds
\* at least one 1; a criterion whose consolidated row is all 0 has x[i] = 0
\* under rep_veto, the row of every feasible assignment for it.
C22_RepresentativenessFlag ==
    Extracted =>
        \A i \in data.I :
            /\ data.e_rp[i] \in {0, 1} /\ data.e_rp_dict[i] = data.e_rp[i]
            /\ data.e_rp[i] = 1 <=> RowHasOne(data, i)
            /\ ~RowHasOne(data, i) =>
                  \A b \in Bin : rep_veto(data, [x |-> (i :> b)], i) => b = 0
            /\ RowHasOne(data, i) => rep_veto(data, [x |-> (i :> 1)], i)

\* every expert assigned criterion 1, to different objectives, and no
\* objective has a majority: the flag is 0
W_C22 ==
    /\ Extracted
    /\ \A e \in 1 .. file.cfg.num_experts :
          \E o \in data.O : file.assign[e][1][o] = Num(1)
    /\ ~RowHasOne(data, 1) /\ data.e_rp_dict[1] = 0
    /\ RowHasOne(data, 2) /\ data.e_rp_dict[2] = 1

\* C23: Io[o] is the number of criteria whose consolidated row has a 1 in
\* column o and D[o] = max(1, Io[o] - U[o]); so D[o] >= 1, L[o] <= U[o] and
\* no divisor of the representativeness penalty is 0.
C23_TargetCoverageAndDeficit ==
    Extracted =>
        \A o \in data.O :
            /\ data.Io[o] = Cardinality({i \in data.I : data.g_matrix[i][o] = 1})
            /\ data.Io_dict[o] = data.Io[o]
            /\ data.D[o] = Max2(1, data.Io_dict[o] - data.U[o])
            /\ data.D[o] >= 1
            /\ 1 <= data.L[o] /\ data.L[o] <= data.U[o]
            /\ data.L[o] * O_card(data) # 0 /\ data.D[o] * O_card(data) # 0

\* an objective no criterion is mapped to (Io - U < 1, D = 1), or one that
\* more than U + 1 criteria are mapped to (D = Io - U > 1)
W_C23 ==
    /\ Extracted
    /\ \E o \in data.O : \/ data.Io_dict[o] = 0 /\ data.D[o] = 1
                         \/ data.Io_dict[o] = 4 /\ data.D[o] = 2

\* the normalized matrix of expert e, as used for the elasticities
NormOf(d, e) == d.s_values[1].norm[e]

\* C24: every entry of a normalized matrix lies in [0, 1]; a benefit column
\* is (v - min) / (max - min), a cost column (max - v) / (max - min), and a
\* column whose minimum equals its maximum is 1 in every row.
C24_NormalizedColumns ==
    Extracted =>
        \A e \in DOMAIN file.sens :
            LET m == MatrixValues(file.sens[e])
                nm == NormOf(data, e)
            IN  \A a \in DOMAIN m : \A c \in DOMAIN m[a] :
                  LET lo == ColMin(m, c)
                      hi == ColMax(m, c)
                  IN  /\ nm[a][c][2] > 0
                      /\ 0 <= nm[a][c][1] /\ nm[a][c][1] <= nm[a][c][2]
                      /\ lo = hi => nm[a][c] = <<1, 1>>
                      /\ (lo < hi /\ file.cfg.criteria_types[c] = "Benefit") =>
                            nm[a][c][1] * (hi - lo) = (m[a][c] - lo) * nm[a][c][2]
                      /\ (lo < hi /\ file.cfg.criteria_types[c] = "Cost") =>
                            nm[a][c][1] * (hi - lo) = (hi - m[a][c]) * nm[a][c][2]

\* expert 1's first column is constant (here all blank, read as 0.0) and
\* the second, a cost column, is not
W_C24 ==
    /\ Extracted
    /\ \A a \in DOMAIN file.sens[1] : file.sens[1][a][1] = Blank
    /\ \A a \in DOMAIN file.sens[1] : NormOf(data, 1)[a][1] = <<1, 1>>
    /\ \E a \in DOMAIN file.sens[1] : NormOf(data, 1)[a][2] = <<0, 1>>
    /\ file.cfg.criteria_types[2] = "Cost"

\* every expert marks at most one objective for every criterion
OnePerCriterion(wb) ==
    \A e \in 1 .. wb.cfg.num_experts : \A i \in 1 .. wb.cfg.num_criteria :
        /\ \A o \in 1 .. wb.cfg.num_objectives : wb.assign[e][i][o] \in {Blank, Num(0), Num(1)}
        /\ Cardinality({o \in 1 .. wb.cfg.num_objectives : wb.assign[e][i][o] = Num(1)}) <= 1

\* C27: when every expert assigns each criterion to at most one objective,
\* every row of the consolidated coverage matrix, in the workbook and as
\* read, has at most one 1.
C27_ConsolidatedRowAtMostOne ==
    (file # None /\ file.calc /\ OnePerCriterion(file)) =>
        /\ \A i \in 1 .. file.cfg.num_criteria :
             Cardinality({o \in 1 .. file.cfg.num_objectives :
                            file.cached.g[i][o] = Num(1)}) <= 1
        /\ Extracted =>
             \A i \in data.I :
                Cardinality({o \in data.O : data.g_matrix[i][o] = 1}) <= 1

\* two objectives, the experts split between them with a majority for one
W_C27 ==
    /\ Extracted /\ OnePerCriterion(file)
    /\ file.cfg.num_objectives >= 2 /\ file.cfg.num_experts = 3
    /\ \E e1, e2 \in 1 .. 3 : file.assign[e1][1][1] = Num(1) /\ file.assign[e2][1][2] = Num(1)
    /\ Cardinality({o \in data.O : data.g_matrix[1][o] = 1}) = 1


\* the value of a term w * (num / den) is not negative
TermNonNegative(t) == t.w[1] * t.num * t.den >= 0 /\ t.w[2] > 0

\* C25: with omega >= 1 and zeta >= 1 every penalised deviation (d1_minus,
\* d2_plus, do1_minus[o], do2_plus[o]) is subtracted from the maximised
\* objective with a coefficient that is not negative, and the objective is
\* bounded above.
\* Violated: with zeta > len(I) the divisor len(I) - zeta of d2_plus is
\* negative, the objective grows with d2_plus, and par2 lets d2_plus grow
\* together with d2_minus.
X_C25_DeviationCoefficients ==
    (HasModel /\ built.M.data.omega >= 1 /\ built.M.data.zeta >= 1) =>
        /\ TermNonNegative(built.M.obj.d1_minus)
        /\ TermNonNegative(built.M.obj.d2_plus)
        /\ \A o \in built.M.data.O :
              /\ TermNonNegative(built.M.obj.do1_minus[o])
              /\ TermNonNegative(built.M.obj.do2_plus[o])
        /\ ~Unbounded(built.M)


\* criterion i passes the six gates (each gate's pair of rows admits the
\* indicator 1) and both vetoes
Eligible(d, i) ==
    /\ \A gate \in GateNames : GatePair(d, gate, [k \in d.I |-> 1], i)
    /\ d.q[i] = 1 /\ d.e_rp_dict[i] = 1

\* no criterion mapped to objective o is eligible
NoneEligible(d, o) == \A i \in d.I : d.g[<<i, o>>] = 1 => ~Eligible(d, i)

\* C26: if no criterion mapped to some objective o passes the six gates and
\* both vetoes, build_mcdm_model still returns a model, and that model has
\* no assignment satisfying all constraints.
\* Violated: the build raises ZeroDivisionError on such data when a divisor
\* of the objective is 0 (a single criterion, zeta = len(I), a metric whose
\* values are all 0).  A model that is returned has no assignment.
X_C26_UncoveredObjectiveInfeasible ==
    (built # None /\ StructurallyValid(data) /\ \E o \in data.O : NoneEligible(data, o)) =>
        /\ built.status = "ok"
        /\ \A gs \in GateSets(built.M.data) : \A x \in XSet(built.M.data, gs) :
              NSet(built.M.data, x) = {}
        /\ Assignments(built.M.data) = {}
        /\ asg = None


(***************************************************************************)
(* The wizard: main, show_navigation_buttons and the four pages.  A click  *)
(* of a navigation button sets current_step and reruns the script, which   *)
(* renders the page of the new step; the page of step 3 stores the         *)
(* normalized weights.  The state of a keyed widget (the sliders, the file *)
(* uploader) that a run does not render may be discarded; the sliders are  *)
(* then set to their defaults again.                                       *)
(***************************************************************************)
\* a Next button that is never disabled
can_proceed_always(step, d, w) == TRUE

\* can_proceed of show_navigation_buttons
can_proceed(step, d, w) ==
    CASE step = 1 -> TRUE
      [] step = 2 -> d # None
      [] step = 3 -> w # None
      [] OTHER -> FALSE

\* the quick-navigation buttons of steps 3 and 4 that are never disabled
QuickEnabled_always(k, d, w) == TRUE

\* disabled=not st.session_state.data, disabled=not st.session_state.weights
QuickEnabled(k, d, w) == (k = 3 => d # None) /\ (k = 4 => w # None)

\* st.session_state.current_step = k; st.rerun()
EnterStep(k) ==
    /\ current_step' = k
    /\ sliders' \in (IF k = 3 /\ current_step # 3 THEN {sliders, SlidersDefault}
                     ELSE {sliders})
    /\ file' \in (IF current_step = 2 /\ k # 2 THEN {file, None} ELSE {file})
    /\ weights' = IF k = 3 /\ data # None THEN Normalized(sliders') ELSE weights
    /\ UNCHANGED <<data, model, result, built, asg, run, rng, rebuilt, extract>>

Back == current_step > 1 /\ EnterStep(current_step - 1)

NextStep ==
    /\ current_step < 4
    /\ can_proceed(current_step, data, weights)
    /\ EnterStep(current_step + 1)

QuickNavigation == \E k \in 1 .. 4 : QuickEnabled(k, data, weights) /\ EnterStep(k)

\* The uploaded files: one whose data makes build_mcdm_model raise (a
\* single criterion), one whose data builds and solves (two criteria, the
\* second not monotone), one that cannot be read.
WizardData ==
    {DerivedData(BaseRaw(1, 1)),
     DerivedData([BaseRaw(2, 1) EXCEPT !.q_values[2] = 0])}
WizardFiles == {Parsed(d) : d \in WizardData} \cup {Unreadable}

UploadParsed ==
    /\ current_step = 2
    /\ file' \in WizardFiles \ {file}
    /\ UNCHANGED <<current_step, data, weights, model, result, sliders, built, asg, run,
                   rng, rebuilt, extract>>

\* every solver is installed, or none is
WizardAvails == {[nm \in {"cbc", "highs", "glpk"} |-> b] : b \in BOOLEAN}

InitWizard ==
    /\ current_step = 1
    /\ data = None /\ weights = None
    /\ model = None /\ result = None
    /\ sliders = SlidersDefault
    /\ built = None /\ asg = None /\ run = None
    /\ file = None /\ rng = Unseeded /\ rebuilt = None /\ extract = None

NextWizard ==
    \/ Back \/ NextStep \/ QuickNavigation
    \/ UploadParsed \/ ExtractData
    \/ SetSliderOf({"w1"})
    \/ RunOptimizationOn(WizardAvails, MaxWizardRuns)

SpecWizard == InitWizard /\ [][NextWizard]_vars


(***************************************************************************)
(* Properties of the wizard (SpecWizard).                                  *)
(***************************************************************************)
\* C28: current_step is one of 1..4; at step 3 or 4 extracted data is
\* stored; at step 4 weights are stored; weights are stored only when data
\* is; a model is built and solved, and stored, only when both exist.
C28_StepsFollowStoredState ==
    /\ current_step \in 1 .. 4
    /\ current_step >= 3 => data # None
    /\ current_step = 4 => weights # None
    /\ weights # None => data # None
    /\ (run # None \/ model # None \/ result # None) => (data # None /\ weights # None)

\* the optimization has run at step 4 and stored a model
W_C28 ==
    /\ current_step = 4 /\ run # None /\ run.outcome = "optimal"
    /\ model # None /\ data # None /\ weights # None

\* C29: an extraction in which read_mcdm_template raises keeps the stored
\* data, and a run in which build_mcdm_model, pick_solver or solver.solve
\* raises keeps the stored model and result; both leave data, weights and
\* current_step as they were.
C29_FailedActionKeepsState ==
    [][/\ (extract' # extract /\ extract'.status = "raised") =>
             /\ data' = data /\ weights' = weights /\ current_step' = current_step
             /\ model' = model /\ result' = result
       /\ (run' # run /\ run'.outcome = "error") =>
             /\ model' = model /\ result' = result
             /\ data' = data /\ weights' = weights /\ current_step' = current_step]_vars

\* a run failed with a model stored by an earlier run, after an extraction
\* that raised with data stored by an earlier one
W_C29 ==
    /\ run # None /\ run.outcome = "error" /\ run.count = 2
    /\ model # None /\ result # None
    /\ extract # None /\ extract.status = "raised" /\ extract.previous # None
    /\ data = extract.previous

\* C30: a stored model and result were built and solved from the data and
\* the weights that are stored now.
\* Violated: nothing clears or rebuilds the model when Extract Data stores
\* other data or a slider changes the weights.
X_C30_ModelMatchesStoredInputs ==
    (model # None /\ result # None) =>
        /\ model.M.data = data
        /\ model.M.weights = weights

====
